---- MODULE Spec2Model ----
(***************************************************************************)
(* Model of packages/vuepress-plugin-apidoc/index.js: the extendPageData   *)
(* hook, the processed cache and the MetadataProcessor pipeline.           *)
(*                                                                         *)
(* Strings whose characters the code inspects (member names, type names,   *)
(* member kinds) are sequences of one-character strings, so toLowerCase,   *)
(* toUpperCase, the constant-name pattern and localeCompare are computed   *)
(* character by character.                                                 *)
(***************************************************************************)
EXTENDS Integers, Sequences, FiniteSets, TLC

(***************************************************************************)
(* Bounds of the model.                                                    *)
(***************************************************************************)
\* longest member list drawn for the varied kind of the varied type
MaxMembers == 2
\* number of extendPageData calls explored on the fixed metadata
MaxCalls == 3
\* number of extendPageData calls explored on the varied metadata
MaxPipelineCalls == 2
\* a render call may throw; it is the FailAt-th call of a pipeline run, 1..MaxFailAt
MaxFailAt == 3
\* number of pieces a markdown text handed to rewriteTypeLinks is made of
MaxPieces == 2

(***************************************************************************)
(* Characters and strings.                                                 *)
(***************************************************************************)
LowerLetters == <<"a","b","c","d","e","f","g","h","i","j","k","l","m",
                  "n","o","p","q","r","s","t","u","v","w","x","y","z">>
UpperLetters == <<"A","B","C","D","E","F","G","H","I","J","K","L","M",
                  "N","O","P","Q","R","S","T","U","V","W","X","Y","Z">>
Digits == <<"0","1","2","3","4","5","6","7","8","9">>

Letters == 1..Len(LowerLetters)
UpperSet == { UpperLetters[i] : i \in Letters }
LowerSet == { LowerLetters[i] : i \in Letters }
DigitSet == { Digits[i] : i \in 1..Len(Digits) }
Chars == UpperSet \cup LowerSet \cup DigitSet \cup {"_", ".", "-", " "}

IsUpperChar(c) == c \in UpperSet
IsLowerChar(c) == c \in LowerSet
IsDigitChar(c) == c \in DigitSet

\* the case mappings of the characters, tabulated
LowerOf == [c \in Chars |->
              IF c \in UpperSet
              THEN LowerLetters[CHOOSE i \in Letters : UpperLetters[i] = c] ELSE c]
UpperOf == [c \in Chars |->
              IF c \in LowerSet
              THEN UpperLetters[CHOOSE i \in Letters : LowerLetters[i] = c] ELSE c]

ToLowerChar(c) == LowerOf[c]
ToUpperChar(c) == UpperOf[c]

\* String.prototype.toLowerCase
toLowerCase(s) == [i \in 1..Len(s) |-> ToLowerChar(s[i])]

\* memberType.charAt(0).toUpperCase() + memberType.slice(1)
Capitalize(s) == IF s = <<>> THEN s ELSE <<ToUpperChar(s[1])>> \o Tail(s)

\* the pattern without its anchors: /[A-Z0-9_]+/
constantNamingPattern_Unanchored(name) ==
    \E i \in 1..Len(name) :
        name[i] \in UpperSet \/ name[i] \in DigitSet \/ name[i] = "_"

\* this.constantNamingPattern = /^[A-Z0-9_]+$/, used through .test(name)
constantNamingPattern(name) ==
    /\ Len(name) >= 1
    /\ \A i \in 1..Len(name) :
          IsUpperChar(name[i]) \/ IsDigitChar(name[i]) \/ name[i] = "_"

(***************************************************************************)
(* String.prototype.localeCompare: punctuation before digits before        *)
(* letters, letters compared without case first, and on a tie lower case   *)
(* before upper case.  The result is -1, 0 or 1.                           *)
(***************************************************************************)
\* collation weights, tabulated: "_" < digits < letters; lower case before upper case
PrimaryOf == [c \in Chars |->
                IF c \in {" ", "-", "."} THEN 0
                ELSE IF c = "_" THEN 1
                ELSE IF c \in DigitSet THEN 1 + (CHOOSE i \in 1..Len(Digits) : Digits[i] = c)
                ELSE 11 + (CHOOSE i \in Letters : LowerLetters[i] = LowerOf[c])]

PrimaryWeight(c) == PrimaryOf[c]
TertiaryWeight(c) == IF IsUpperChar(c) THEN 1 ELSE 0

RECURSIVE CompareWeights(_, _, _)
CompareWeights(wa, wb, i) ==
    IF i > Len(wa) /\ i > Len(wb) THEN 0
    ELSE IF i > Len(wa) THEN -1
    ELSE IF i > Len(wb) THEN 1
    ELSE IF wa[i] < wb[i] THEN -1
    ELSE IF wa[i] > wb[i] THEN 1
    ELSE CompareWeights(wa, wb, i + 1)

PrimaryKey(s) == [i \in 1..Len(s) |-> PrimaryWeight(s[i])]
TertiaryKey(s) == [i \in 1..Len(s) |-> TertiaryWeight(s[i])]

localeCompare(a, b) ==
    LET p == CompareWeights(PrimaryKey(a), PrimaryKey(b), 1)
    IN  IF p # 0 THEN p ELSE CompareWeights(TertiaryKey(a), TertiaryKey(b), 1)

(***************************************************************************)
(* State.                                                                  *)
(***************************************************************************)
VARIABLES
    versions,      \* the module-level versions array, read from versions.json
    metadata,      \* metadataService.metadata: version -> type name -> TypeMetadata
    processed,     \* the module-level processed cache: <<version, typeName>> -> processor
    link_open,     \* context.markdown.renderer.rules.link_open
    currentPage,   \* metadataService.currentPage
    page,          \* the page object handed to the latest extendPageData call
    created,       \* number of MetadataProcessor objects constructed (object identity)
    calls,         \* number of extendPageData calls made
    runs,          \* history: <<version, typeName>> -> pipeline runs started
    last           \* history: what the latest extendPageData call did

vars == <<versions, metadata, processed, link_open, currentPage, page,
          created, calls, runs, last>>

(***************************************************************************)
(* Markdown strings, rendered HTML and links.                              *)
(*                                                                         *)
(* A markdown string is a sequence of characters.  The characters the two  *)
(* link patterns look at, < > / [ ] ( ), and the characters of key-paths   *)
(* are elements of their own; a run of other characters may be written as  *)
(* one element.  A rendered value records the markdown handed to           *)
(* markdown.render and the link_open rule installed when it was rendered.  *)
(***************************************************************************)
Null == ""
Undefined == [kind |-> "undefined"]

\* a run of ordinary characters, none of < > / [ ] ( )
TextTok(s) == <<s>>
\* `<${keyPath}>`
AngleTok(t) == <<"<">> \o t \o <<">">>
\* `[${text}](${keyPath})`
LinkTok(s, t) == <<"[", s, "]", "(">> \o t \o <<")">>

Md(toks) == [kind |-> "md", toks |-> toks]
EmptyString == Md(<<>>)

\* JavaScript truthiness of a text field: undefined and "" are falsy
Truthy(x) == \/ x.kind = "html"
             \/ x.kind = "md" /\ x.toks # <<>>
             \/ x.kind = "list"

\* the first declared version is the default one; without versions.json it is 'next'
DefaultVersion == IF versions = <<>> THEN "next" ELSE versions[1]

\* getLinkForKeyPath(keyPath, base, version) of lib/utils/metadata: a link
\* {name, path} when the key-path names a type of the version (the default
\* version for the null sentinel), null otherwise; the path is qualified by the
\* version unless it is the null sentinel
getLinkForKeyPath(keyPath, base, version) ==
    LET v == IF version = Null THEN DefaultVersion ELSE version
    IN  IF v \in DOMAIN metadata /\ keyPath \in DOMAIN metadata[v]
        THEN [found |-> TRUE,
              name |-> keyPath,
              path |-> <<base>> \o (IF version = Null THEN <<>> ELSE <<version, "/">>)
                         \o <<"api", "/">> \o keyPath \o <<".html">>]
        ELSE [found |-> FALSE, name |-> <<>>, path |-> <<>>]

\* a version argument that is always the processor's version
LinkVersion_AlwaysQualified(self) == self.version

\* line 381: the version argument rewriteTypeLinks hands to getLinkForKeyPath
LinkVersion(self) ==
    IF Len(versions) = 0 \/ self.version = versions[1] THEN Null ELSE self.version

\* the first position from i on whose character is in `stop`, Len(s) + 1 if none:
\* where a greedy [^...]+ that starts at i ends
RECURSIVE RunEnd(_, _, _)
RunEnd(s, i, stop) ==
    IF i > Len(s) \/ s[i] \in stop THEN i ELSE RunEnd(s, i + 1, stop)

NoMatch == [found |-> FALSE, end |-> 0, linkValue |-> <<>>]

\* /<([^>\/]+)>/ tried at position i
customLinkPattern(s, i) ==
    IF s[i] # "<" THEN NoMatch
    ELSE LET e == RunEnd(s, i + 1, {">", "/"})
         IN  IF e > i + 1 /\ e <= Len(s) /\ s[e] = ">"
             THEN [found |-> TRUE, end |-> e, linkValue |-> SubSeq(s, i + 1, e - 1)]
             ELSE NoMatch

\* the rest of mdLinkPattern once `[text` has been read up to position e
MdLinkTarget(s, e) ==
    IF e + 1 > Len(s) \/ s[e] # "]" \/ s[e + 1] # "(" THEN NoMatch
    ELSE LET f == RunEnd(s, e + 2, {")"})
         IN  IF f > e + 2 /\ f <= Len(s)
             THEN [found |-> TRUE, end |-> f, linkValue |-> SubSeq(s, e + 2, f - 1)]
             ELSE NoMatch

\* /\[([^\]]+)\]\(([^)]+)\)/ tried at position i
mdLinkPattern(s, i) ==
    IF s[i] # "[" THEN NoMatch
    ELSE LET e == RunEnd(s, i + 1, {"]"})
         IN  IF e > i + 1 THEN MdLinkTarget(s, e) ELSE NoMatch

MatchAt(pattern, s, i) ==
    IF pattern = "customLinkPattern" THEN customLinkPattern(s, i) ELSE mdLinkPattern(s, i)

\* `[${link.name}](${link.path})`
LinkMarkdown(link) == <<"[">> \o link.name \o <<"]", "(">> \o link.path \o <<")">>

\* a callback that returns nothing for a key-path that does not resolve
ReplaceMatch_DropsUnresolved(acc, match, linkValue, self) ==
    LET link == getLinkForKeyPath(linkValue, self.base, LinkVersion(self))
    IN  [text |-> acc.text \o (IF link.found THEN LinkMarkdown(link) ELSE <<>>),
         calls |-> Append(acc.calls, [keyPath |-> linkValue, base |-> self.base,
                                      version |-> LinkVersion(self)])]

\* the replace callback: `[${link.name}](${link.path})` when the key-path
\* resolves, the match itself otherwise; the call of the resolver is recorded
ReplaceMatch(acc, match, linkValue, self) ==
    LET link == getLinkForKeyPath(linkValue, self.base, LinkVersion(self))
    IN  [text |-> acc.text \o (IF link.found THEN LinkMarkdown(link) ELSE match),
         calls |-> Append(acc.calls, [keyPath |-> linkValue, base |-> self.base,
                                      version |-> LinkVersion(self)])]

\* String.prototype.replace with a global pattern: the matches are found from
\* left to right, each search starting where the previous match ended
RECURSIVE ReplaceMatches(_, _, _, _, _)
ReplaceMatches(s, i, pattern, self, acc) ==
    IF i > Len(s) THEN acc
    ELSE LET m == MatchAt(pattern, s, i)
         IN  IF m.found
             THEN ReplaceMatches(s, m.end + 1, pattern, self,
                                 ReplaceMatch(acc, SubSeq(s, i, m.end), m.linkValue, self))
             ELSE ReplaceMatches(s, i + 1, pattern, self,
                                 [acc EXCEPT !.text = Append(@, s[i])])

\* the mdLinkPattern pass, run on the text the customLinkPattern pass returned
MdLinkPass(first, self) ==
    ReplaceMatches(first.text, 1, "mdLinkPattern", self,
                   [text |-> <<>>, calls |-> first.calls])

Rewritten(second) == [text |-> Md(second.text), calls |-> second.calls]

\* rewriteTypeLinks: the rewritten string and the calls of the resolver it made
rewriteTypeLinks(markdownString, self) ==
    IF markdownString.kind = "md"
    THEN Rewritten(
             MdLinkPass(ReplaceMatches(markdownString.toks, 1, "customLinkPattern", self,
                                       [text |-> <<>>, calls |-> <<>>]),
                        self))
    ELSE \* already rendered HTML: its tags name no type
         [text |-> markdownString, calls |-> <<>>]

\* markdown.render(markdownString).html under the installed link_open rule
Render(markdownString, rule) ==
    [kind |-> "html", link_open |-> rule, src |-> markdownString]

(***************************************************************************)
(* MetadataProcessor.                                                      *)
(***************************************************************************)
VueRouterLinkRule == "vueRouterLink"   \* the rule VuePress installs
PassThroughRule == "passThrough"       \* the function installed at line 286

\* the characters of a member kind, for charAt / slice
MemberTypeName(memberType) ==
    CASE memberType = "properties" -> <<"p","r","o","p","e","r","t","i","e","s">>
      [] memberType = "methods" -> <<"m","e","t","h","o","d","s">>
      [] memberType = "events" -> <<"e","v","e","n","t","s">>

\* new MetadataProcessor(context, version)
NewProcessor(id, version) ==
    [id |-> id, base |-> "/", version |-> version,
     additionalHeaders |-> <<>>, hasConstants |-> FALSE]

\* a filter that drops every member with an inherits field, also the type's own
filterInherited_DropsOwn(member, md) == member.inherits = <<>>

\* the arrow function filterInherited of filterInheritedMembers
filterInherited(member, md) ==
    IF member.inherits # <<>> /\ member.inherits # md.name THEN FALSE ELSE TRUE

FilterMembers(members, md) ==
    LET Keep(m) == filterInherited(m, md) IN SelectSeq(members, Keep)

filterInheritedMembers(md) ==
    [md EXCEPT !.properties = FilterMembers(@, md),
               !.methods = FilterMembers(@, md),
               !.events = FilterMembers(@, md)]

\* Array.prototype.sort with (a, b) => a.name.localeCompare(b.name): a stable
\* sort, here by insertion
RECURSIVE InsertByName(_, _)
InsertByName(sorted, m) ==
    IF sorted = <<>> THEN <<m>>
    ELSE IF localeCompare(Head(sorted).name, m.name) <= 0
         THEN <<Head(sorted)>> \o InsertByName(Tail(sorted), m)
         ELSE <<m>> \o sorted

RECURSIVE SortFrom(_, _, _)
SortFrom(arr, i, acc) ==
    IF i > Len(arr) THEN acc ELSE SortFrom(arr, i + 1, InsertByName(acc, arr[i]))

\* a sort that does nothing
sortByName_Unsorted(unsortedArray) == unsortedArray

sortByName(unsortedArray) == SortFrom(unsortedArray, 1, <<>>)

\* a split that fills constants and forgets to replace properties
splitPropertiesAndConstants_KeepsAll(md) ==
    [md EXCEPT !.constants =
        SelectSeq(md.properties, LAMBDA m : constantNamingPattern(m.name))]

\* splitPropertiesAndConstants
IsConstantMember(property) == constantNamingPattern(property.name)
IsPlainMember(property) == ~constantNamingPattern(property.name)

splitPropertiesAndConstants(md) ==
    [md EXCEPT !.properties = SelectSeq(md.properties, IsPlainMember),
               !.constants = SelectSeq(md.properties, IsConstantMember)]

(***************************************************************************)
(* The running pipeline is a record st: the metadata object being mutated  *)
(* (md), the renderer rule (link_open), the processor (self), the local    *)
(* headers array of transformMembersAndCollectHeaders, the number of       *)
(* render calls made (n), the call that throws (failAt, 0 for none),       *)
(* whether an exception is propagating (threw), the value returned by the  *)
(* latest renderMarkdown (ret) and the log of what was done.               *)
(***************************************************************************)
NoRewrite == [text |-> Undefined, calls |-> <<>>]

\* an entry of the log: the event, the rule installed at that moment, and for
\* a render call its argument and what rewriteTypeLinks made of it
Event(ev, rule, arg, rewritten) ==
    [ev |-> ev, link_open |-> rule, arg |-> arg, rewritten |-> rewritten]

Log(st, ev, arg, rewritten) == Append(st.log, Event(ev, st.link_open, arg, rewritten))

\* renderMarkdown: rewriteTypeLinks, then markdown.render, which may throw
Rendering(st, markdownString, rewritten) ==
    IF st.n + 1 = st.failAt
    THEN [st EXCEPT !.n = @ + 1, !.threw = TRUE,
                    !.log = Log(st, "throw", markdownString, rewritten)]
    ELSE [st EXCEPT !.n = @ + 1,
                    !.ret = Render(rewritten.text, st.link_open),
                    !.log = Log(st, "render", markdownString, rewritten)]

renderMarkdown(st, markdownString) ==
    Rendering(st, markdownString, rewriteTypeLinks(markdownString, st.self))

\* '#### Examples\n\n' followed by `##### ${description}\n${code}` per example
RECURSIVE ExamplesBody(_, _)
ExamplesBody(items, i) ==
    IF i > Len(items) THEN <<>>
    ELSE TextTok("##### ") \o items[i].description.toks \o TextTok("\n")
         \o items[i].code.toks \o ExamplesBody(items, i + 1)

\* a block built with = instead of +=: only the last example is in it
CombinedExamplesMarkdown_LastOnly(items) ==
    Md(TextTok("##### ") \o items[Len(items)].description.toks \o TextTok("\n")
         \o items[Len(items)].code.toks)

CombinedExamplesMarkdown(items) ==
    Md(TextTok("#### Examples\n\n") \o ExamplesBody(items, 1))

HasNotes(m) == m.deprecated.kind = "object" /\ Truthy(m.deprecated.notes)
HasReturnsSummary(m) == m.returns.kind = "object" /\ Truthy(m.returns.summary)
HasExamples(m) == \/ m.examples.kind = "list" /\ Len(m.examples.items) # 0
                  \/ m.examples.kind = "html"

\* `field = this.renderMarkdown(field)`: the assignment happens unless the call threw
RenderedMember(r, memberType, index, field) ==
    IF r.threw THEN r
    ELSE IF field = "notes"
         THEN [r EXCEPT !.md[memberType][index].deprecated.notes = r.ret]
    ELSE IF field = "returns"
         THEN [r EXCEPT !.md[memberType][index].returns.summary = r.ret]
    ELSE [r EXCEPT !.md[memberType][index][field] = r.ret]

\* a test that forgets the member kind
IsConstantForHeaders_AnyKind(memberType, m) == constantNamingPattern(m.name)

\* line 350: memberType === 'properties' && this.constantNamingPattern.test(name)
IsConstantForHeaders(memberType, m) ==
    memberType = "properties" /\ constantNamingPattern(m.name)

\* one statement of the forEach callback of transformMembersAndCollectHeaders
MemberStep(st, memberType, index, field) ==
    LET m == st.md[memberType][index]
    IN  CASE field = "summary" ->
               IF Truthy(m.summary)
               THEN RenderedMember(renderMarkdown(st, m.summary), memberType, index, field)
               ELSE st
          [] field = "description" ->
               IF Truthy(m.description)
               THEN RenderedMember(renderMarkdown(st, m.description), memberType, index, field)
               ELSE st
          [] field = "examples" ->
               IF ~HasExamples(m) THEN st
               ELSE IF m.examples.kind # "list"
                    \* a string has no forEach: TypeError
                    THEN [st EXCEPT !.threw = TRUE,
                                    !.log = Log(st, "throw", Undefined, NoRewrite)]
               ELSE RenderedMember(
                        renderMarkdown(st, CombinedExamplesMarkdown(m.examples.items)),
                        memberType, index, field)
          [] field = "notes" ->
               IF HasNotes(m)
               THEN RenderedMember(renderMarkdown(st, m.deprecated.notes),
                                   memberType, index, field)
               ELSE st
          [] field = "returns" ->
               IF HasReturnsSummary(m)
               THEN RenderedMember(renderMarkdown(st, m.returns.summary),
                                   memberType, index, field)
               ELSE st
          [] field = "header" ->
               IF IsConstantForHeaders(memberType, m)
               THEN [st EXCEPT !.self.hasConstants = TRUE]
               ELSE [st EXCEPT !.headers = Append(@, [level |-> 3,
                                                      title |-> m.name,
                                                      slug |-> toLowerCase(m.name)])]

\* the statements of the callback, in the order of the code
MemberSteps == <<"summary", "description", "examples", "notes", "returns", "header">>

\* the forEach over the members: member by member, statement by statement,
\* abandoned as soon as an exception propagates
RECURSIVE ForEachMember(_, _, _, _)
ForEachMember(st, memberType, index, step) ==
    IF st.threw \/ index > Len(st.md[memberType]) THEN st
    ELSE IF step > Len(MemberSteps) THEN ForEachMember(st, memberType, index + 1, 1)
    ELSE ForEachMember(MemberStep(st, memberType, index, MemberSteps[step]),
                       memberType, index, step + 1)

\* the level-2 header pushed without the test of headers.length
PushHeaders_Always(st, memberType) ==
    IF st.threw THEN st
    ELSE [st EXCEPT !.self.additionalHeaders =
              @ \o <<[level |-> 2,
                      title |-> Capitalize(MemberTypeName(memberType)),
                      slug |-> MemberTypeName(memberType)]>>
                \o st.headers]

\* the end of transformMembersAndCollectHeaders: the level-2 header and the
\* collected headers are appended when there are any
PushHeaders(st, memberType) ==
    IF st.threw \/ Len(st.headers) = 0 THEN st
    ELSE [st EXCEPT !.self.additionalHeaders =
              @ \o <<[level |-> 2,
                      title |-> Capitalize(MemberTypeName(memberType)),
                      slug |-> MemberTypeName(memberType)]>>
                \o st.headers]

transformMembersAndCollectHeaders(st, memberType) ==
    IF st.threw \/ Len(st.md[memberType]) = 0 THEN st
    ELSE PushHeaders(ForEachMember([st EXCEPT !.headers = <<>>], memberType, 1, 1),
                     memberType)

\* lines 275-278: the two deletes and the filter
FilteredMetadata(md) ==
    filterInheritedMembers([md EXCEPT !.description = Undefined, !.examples = Undefined])

\* events sorted like the other two kinds
SortedMetadata_EventsToo(filtered) ==
    [filtered EXCEPT !.properties = sortByName(@), !.methods = sortByName(@),
                     !.events = sortByName(@)]

\* lines 280-281: properties and methods are sorted, events are not
SortedMetadata(filtered) ==
    [filtered EXCEPT !.properties = sortByName(@), !.methods = sortByName(@)]

\* a start of the render stages that leaves the installed rule in place
Suppressed_RuleKept(self, filtered, failAt) ==
    [md |-> SortedMetadata(filtered), link_open |-> VueRouterLinkRule, self |-> self,
     headers |-> <<>>, n |-> 0, failAt |-> failAt, threw |-> FALSE, ret |-> Undefined,
     log |-> <<Event("suppress", VueRouterLinkRule, Undefined, NoRewrite)>>,
     filtered |-> filtered, sorted |-> SortedMetadata(filtered), presplit |-> Undefined]

\* lines 285-288: the installed rule is kept aside, the pass-through rule installed.
\* filtered, sorted and presplit keep the metadata as it was after the filter,
\* after the sorts and before the split
Suppressed(self, filtered, failAt) ==
    [md |-> SortedMetadata(filtered), link_open |-> PassThroughRule, self |-> self,
     headers |-> <<>>, n |-> 0, failAt |-> failAt, threw |-> FALSE, ret |-> Undefined,
     log |-> <<Event("suppress", PassThroughRule, Undefined, NoRewrite)>>,
     filtered |-> filtered, sorted |-> SortedMetadata(filtered), presplit |-> Undefined]

\* line 289: metadata.summary = this.renderMarkdown(metadata.summary)
RenderedSummary(r) == IF r.threw THEN r ELSE [r EXCEPT !.md.summary = r.ret]

\* line 293, reached only when nothing threw
Restored(st, vueRouterLinkRule) ==
    IF st.threw THEN st
    ELSE [st EXCEPT !.link_open = vueRouterLinkRule,
                    !.log = Append(@, Event("restore", vueRouterLinkRule, Undefined,
                                                   NoRewrite))]

\* line 295, reached only when nothing threw
Split(st) ==
    IF st.threw THEN st
    ELSE [st EXCEPT !.md = splitPropertiesAndConstants(@),
                    !.presplit = st.md,
                    !.log = Log(st, "split", Undefined, NoRewrite)]

\* transoformMetadataAndCollectHeaders(metadata), started with the renderer rule
\* `rule` installed
transoformMetadataAndCollectHeaders(self, md, rule, failAt) ==
    Split(
      Restored(
        transformMembersAndCollectHeaders(
          transformMembersAndCollectHeaders(
            transformMembersAndCollectHeaders(
              RenderedSummary(renderMarkdown(Suppressed(self, FilteredMetadata(md), failAt),
                                             md.summary)),
              "properties"),
            "methods"),
          "events"),
        rule))

ConstantsHeader ==
    [level |-> 2, title |-> <<"C","o","n","s","t","a","n","t","s">>,
     slug |-> <<"c","o","n","s","t","a","n","t","s">>]

\* the constants member list of the page: <div class="member-list" v-if="constants.length">
ConstantsSectionShown(md) == Len(md.constants) # 0

\* the Constants header pushed without the test of hasConstants
appendAdditionalHeaders_AlwaysConstants(self, pg) ==
    [self |-> self,
     page |-> [pg EXCEPT
                 !.appends = @ + 1,
                 !.headers =
                    [defined |-> TRUE,
                     items |-> Append((IF pg.headers.defined THEN pg.headers.items
                                       ELSE <<>>) \o self.additionalHeaders,
                                      ConstantsHeader)]]]

\* page.headers = this.additionalHeaders when the page has no headers yet: the
\* Constants header is then pushed onto the processor's own array
appendAdditionalHeaders_SharesArray(self, pg) ==
    LET before == IF pg.headers.defined THEN pg.headers.items ELSE <<>>
        appended == before \o self.additionalHeaders
        items == IF self.hasConstants THEN Append(appended, ConstantsHeader) ELSE appended
    IN  [self |-> IF pg.headers.defined THEN self
                  ELSE [self EXCEPT !.additionalHeaders = items],
         page |-> [pg EXCEPT !.appends = @ + 1,
                             !.headers = [defined |-> TRUE, items |-> items]]]

\* appendAdditionalHeaders(page): the processor and the page afterwards;
\* page.appends counts the calls made on the page object
appendAdditionalHeaders(self, pg) ==
    LET before == IF pg.headers.defined THEN pg.headers.items ELSE <<>>
        appended == before \o self.additionalHeaders
    IN  [self |-> self,
         page |-> [pg EXCEPT
                     !.appends = @ + 1,
                     !.headers =
                        [defined |-> TRUE,
                         items |-> IF self.hasConstants
                                   THEN Append(appended, ConstantsHeader)
                                   ELSE appended]]]

(***************************************************************************)
(* The metadata loaded at start-up and the pages handed to the plugin.     *)
(***************************************************************************)
Ti == <<"T","i">>
Ui == <<"u","i">>

Member(name, inherits, summary) ==
    [name |-> name, inherits |-> inherits, summary |-> summary,
     description |-> Undefined, examples |-> Undefined,
     deprecated |-> Undefined, returns |-> Undefined]

Example(description, code) == [description |-> description, code |-> code]
Examples(items) == [kind |-> "list", items |-> items]

Plain(s) == Md(TextTok(s))

\* member names of the varied list: plain, mixed case, constant-like
MemberNames == { <<"b">>, <<"B">>, <<"A","_","1">> }

SummaryOf(name) ==
    CASE name = <<"b">> -> Md(TextTok("see ") \o AngleTok(Ui))
      [] name = <<"B">> -> EmptyString
      [] OTHER -> Md(LinkTok("the type", Ti) \o AngleTok(<<"N","o","n","e">>))

\* inherits is absent or another type; "b" is also redeclared by the type itself
VariedMembers ==
    { Member(n, i, SummaryOf(n)) : n \in MemberNames, i \in { <<>>, Ui } }
        \cup { Member(<<"b">>, Ti, SummaryOf(<<"b">>)) }

SeqsUpTo(S, n) == UNION { [1..k -> S] : k \in 0..n }

FixedProperties ==
    << [Member(<<"t","o","P">>, <<>>, Md(AngleTok(Ui) \o TextTok(" offset")))
            EXCEPT !.examples = Examples(<<Example(Plain("Move"), Md(<<"m", "(", ")">>))>>)],
       Member(<<"M","A","X","_","1">>, Ti, Plain("upper bound")),
       Member(<<"M","A","X","_","0">>, <<>>, EmptyString) >>

FixedMethods ==
    << [Member(<<"r","u","n">>, <<>>, Plain("runs"))
            EXCEPT !.returns = [kind |-> "object", summary |-> Plain("the result")],
                   !.examples = Examples(<<Example(Md(TextTok("With ") \o AngleTok(Ui)),
                                                   Md(<<"r", "(", ")">>)),
                                           Example(Plain("Alone"),
                                                   Md(<<"q", "(", ")">>))>>)],
       Member(<<"a","d","d">>, Ui, Plain("inherited")),
       Member(<<"g","e","t">>, Ti, EmptyString) >>

FixedEvents ==
    << [Member(<<"t","a","p">>, <<>>, Plain("a tap")) EXCEPT !.examples = Examples(<<>>)],
       Member(<<"s","w","i","p","e">>, Ui, Plain("inherited")),
       [Member(<<"D","R","A","G">>, <<>>, EmptyString)
            EXCEPT !.description = Md(LinkTok("old", Ti))] >>

TypeMetadata(name, properties, methods, events) ==
    [name |-> name,
     summary |-> Md(TextTok("The type ") \o AngleTok(name)),
     description |-> Plain("long text"),
     examples |-> Examples(<<Example(Plain("Usage"), Md(<<"x", "(", ")">>))>>),
     properties |-> properties, methods |-> methods, events |-> events,
     constants |-> <<>>]

\* type Ti of 'next': kind 1, 2 or 3 carries the list `members`, the others the fixed ones
VariedType(kind, members) ==
    TypeMetadata(Ti,
                 IF kind = 1 THEN members ELSE FixedProperties,
                 IF kind = 2 THEN members ELSE FixedMethods,
                 IF kind = 3 THEN members ELSE FixedEvents)

\* type ui of 'next': a single constant
UiType == TypeMetadata(Ui, <<Member(<<"B">>, <<>>, Plain("flag"))>>, <<>>, <<>>)

\* type Ti of a declared version: one property with examples and a deprecation note
OldType ==
    TypeMetadata(Ti,
        << [Member(<<"b">>, <<>>, EmptyString)
               EXCEPT !.examples =
                         Examples(<<Example(Plain("A"), Md(<<"x", "(", ")">>)),
                                    Example(Plain("B"), Md(<<"y", "(", ")">>))>>),
                      !.deprecated = [kind |-> "object", notes |-> Plain("use c")]] >>,
        <<>>, <<>>)

\* no versions.json, one declared version, two declared versions
VersionLists == { <<>>, <<"v1">>, <<"v2", "v1">> }

AllVersions == {"next", "v1", "v2"}
AllKeys == AllVersions \X {Ti, Ui}

\* metadataService.loadMetadata(context, versions): 'next' and every declared version
LoadedMetadata(vs, kind, members) ==
    [v \in {"next"} \cup {vs[i] : i \in 1..Len(vs)} |->
        IF v = "next"
        THEN [t \in {Ti, Ui} |-> IF t = Ti THEN VariedType(kind, members) ELSE UiType]
        ELSE [t \in {Ti} |-> OldType]]

NoHeaders == [defined |-> FALSE, items |-> <<>>]
AuthoredHeader == [level |-> 2, title |-> <<"O","v","e","r","v","i","e","w">>,
                   slug |-> <<"o","v","e","r","v","i","e","w">>]

Page(regularPath, title, metadataKey, version, headers) ==
    [regularPath |-> regularPath, title |-> title, version |-> version,
     frontmatter |-> [metadataKey |-> metadataKey, layout |-> "", sidebarDepth |-> -1,
                      pageClass |-> ""],
     metadataKey |-> <<>>, headers |-> headers, appends |-> 0]

\* the page objects VuePress creates
FreshPages ==
    { Page(<<"api", "ti.html">>, Ti, <<>>, "", NoHeaders),
      Page(<<"api", "ui.html">>, <<"U","I">>, Ui, "",
           [defined |-> TRUE, items |-> <<AuthoredHeader>>]),
      Page(<<"v1", "api", "ti.html">>, Ti, <<>>, "v1", NoHeaders),
      Page(<<"guide", "api.html">>, Ti, <<>>, "", NoHeaders),
      Page(<<"api", "">>, <<"A","P","I">>, <<>>, "", NoHeaders) }

\* /^(\/[\w.\-]+)?\/api\//.test(regularPath); the path is its list of segments,
\* all of them made of the characters [\w.\-]
IsApiPath(regularPath) ==
    \/ Len(regularPath) >= 2 /\ regularPath[1] = "api"
    \/ Len(regularPath) >= 3 /\ regularPath[1] # "" /\ regularPath[2] = "api"

\* metadataService.findMetadata(typeName, version): exact lookup, null if absent
HasMetadata(typeName, version) ==
    version \in DOMAIN metadata /\ typeName \in DOMAIN metadata[version]

\* a cache test that never hits
IsProcessed_Never(version, typeName) == FALSE

\* processed[version] && processed[version][typeName]
IsProcessed(version, typeName) == <<version, typeName>> \in DOMAIN processed

Called(outcome, pg, version, typeName, input, self, run) ==
    [outcome |-> outcome, pageBefore |-> pg, version |-> version, typeName |-> typeName,
     input |-> input, self |-> self, run |-> run]

NoPage == Page(<<>>, <<>>, <<>>, "", NoHeaders)

(***************************************************************************)
(* Init: the plugin has been loaded.                                       *)
(***************************************************************************)
InitWith(vs, kind, members) ==
    /\ versions = vs
    /\ metadata = LoadedMetadata(vs, kind, members)
    /\ processed = << >>
    /\ link_open = VueRouterLinkRule
    /\ currentPage = Null
    /\ page = NoPage
    /\ created = 0
    /\ calls = 0
    /\ runs = [k \in AllKeys |-> 0]
    /\ last = Called("none", NoPage, "", <<>>, Undefined, Undefined, Undefined)

\* the fixed metadata, with or without declared versions
Init == \E vs \in VersionLists : InitWith(vs, 0, <<>>)

\* one kind of type Ti carries any list of up to MaxMembers members
InitPipeline ==
    \E kind \in 1..3, members \in SeqsUpTo(VariedMembers, MaxMembers) :
        InitWith(<<>>, kind, members)

(***************************************************************************)
(* extendPageData(page).  failAt chooses the render call of the pipeline   *)
(* that throws, 0 for none.                                                *)
(***************************************************************************)
\* the processor put into the cache right after its construction
ProcessPage_CachedAtOnce(pg, pg2, version, typeName, run) ==
    /\ created' = created + 1
    /\ runs' = [runs EXCEPT ![<<version, typeName>>] = @ + 1]
    /\ metadata' = [metadata EXCEPT ![version][typeName] = run.md]
    /\ link_open' = run.link_open
    /\ processed' = [k \in DOMAIN processed \cup {<<version, typeName>>} |->
                        IF k = <<version, typeName>> THEN run.self ELSE processed[k]]
    /\ page' = IF run.threw THEN pg2 ELSE appendAdditionalHeaders(run.self, pg2).page
    /\ currentPage' = IF run.threw THEN currentPage ELSE Null
    /\ last' = Called(IF run.threw THEN "threw" ELSE "processed", pg, version, typeName,
                      metadata[version][typeName], run.self, run)

\* lines 78-86: `run` is the outcome of transoformMetadataAndCollectHeaders
ProcessPage(pg, pg2, version, typeName, run) ==
    /\ created' = created + 1
    /\ runs' = [runs EXCEPT ![<<version, typeName>>] = @ + 1]
    /\ metadata' = [metadata EXCEPT ![version][typeName] = run.md]
    /\ link_open' = run.link_open
    /\ IF run.threw
       THEN /\ page' = pg2
            /\ last' = Called("threw", pg, version, typeName,
                              metadata[version][typeName], run.self, run)
            /\ UNCHANGED <<processed, currentPage>>
       ELSE /\ page' = appendAdditionalHeaders(run.self, pg2).page
            /\ processed' = [k \in DOMAIN processed \cup {<<version, typeName>>} |->
                                IF k = <<version, typeName>>
                                THEN appendAdditionalHeaders(run.self, pg2).self
                                ELSE processed[k]]
            /\ currentPage' = Null
            /\ last' = Called("processed", pg, version, typeName,
                              metadata[version][typeName], run.self, run)

\* a branch that returns only after a processor was made for the page
NoMetadata_AfterProcessor(pg, pg1, version, typeName) ==
    /\ page' = appendAdditionalHeaders(NewProcessor(created + 1, version), pg1).page
    /\ created' = created + 1
    /\ currentPage' = Null
    /\ last' = Called("nometadata", pg, version, typeName, Undefined, Undefined,
                      Undefined)
    /\ UNCHANGED <<metadata, processed, link_open, runs>>

\* lines 61-65: the warning, currentPage = null, return
NoMetadata(pg, pg1, version, typeName) ==
    /\ page' = pg1
    /\ currentPage' = Null
    /\ last' = Called("nometadata", pg, version, typeName, Undefined, Undefined,
                      Undefined)
    /\ UNCHANGED <<metadata, processed, link_open, created, runs>>

\* lines 54-86, for an API page: pg1 is the page after lines 54-55
ExtendApiPage(pg, pg1, version, typeName, failAt) ==
    IF ~HasMetadata(typeName, version)
    THEN NoMetadata(pg, pg1, version, typeName)
    ELSE IF IsProcessed(version, typeName)
    THEN /\ page' = appendAdditionalHeaders(
                        processed[<<version, typeName>>],
                        [pg1 EXCEPT !.metadataKey = typeName,
                                    !.frontmatter.pageClass = "api-page"]).page
         /\ processed' = [processed EXCEPT ![<<version, typeName>>] =
                             appendAdditionalHeaders(
                                 @, [pg1 EXCEPT !.metadataKey = typeName,
                                                !.frontmatter.pageClass = "api-page"]).self]
         /\ currentPage' = Null
         /\ last' = Called("cached", pg, version, typeName, metadata[version][typeName],
                           processed[<<version, typeName>>], Undefined)
         /\ UNCHANGED <<metadata, link_open, created, runs>>
    ELSE ProcessPage(pg,
                     [pg1 EXCEPT !.metadataKey = typeName,
                                 !.frontmatter.pageClass = "api-page"],
                     version, typeName,
                     transoformMetadataAndCollectHeaders(
                         NewProcessor(created + 1, version),
                         metadata[version][typeName], link_open, failAt))

ExtendPageData(pg, failAt) ==
    /\ calls' = calls + 1
    /\ UNCHANGED versions
    /\ IF ~IsApiPath(pg.regularPath)
       THEN /\ page' = pg
            /\ last' = Called("skipped", pg, "", <<>>, Undefined, Undefined, Undefined)
            /\ UNCHANGED <<metadata, processed, link_open, currentPage, created, runs>>
       ELSE ExtendApiPage(pg,
                          [pg EXCEPT !.frontmatter.layout = "ApiLayout",
                                     !.frontmatter.sidebarDepth = 0],
                          IF pg.version # "" THEN pg.version ELSE "next",
                          IF pg.frontmatter.metadataKey # <<>>
                          THEN pg.frontmatter.metadataKey ELSE pg.title,
                          failAt)

\* VuePress hands any page to the hook: a new one, or the latest one again
Next ==
    /\ calls < MaxCalls
    /\ \E pg \in FreshPages \cup {page}, failAt \in 0..MaxFailAt : ExtendPageData(pg, failAt)

Spec == Init /\ [][Next]_vars

\* the pages of type Ti of 'next', the type whose members vary
TiPages == { pg \in FreshPages :
                /\ pg.version = ""
                /\ pg.title = Ti
                /\ pg.frontmatter.metadataKey = <<>> }

NextPipeline ==
    /\ calls < MaxPipelineCalls
    /\ \E pg \in TiPages, failAt \in 0..MaxFailAt : ExtendPageData(pg, failAt)

SpecPipeline == InitPipeline /\ [][NextPipeline]_vars

(***************************************************************************)
(* beforeDevServer: the middleware that serves metadata from memory.  A    *)
(* request says whether it accepts JSON and has a path; the path is its    *)
(* list of segments and the ending of the last one.                        *)
(***************************************************************************)
RequestNames == { <<"t","i">>, <<"T","i">>, <<"T","I">>, <<"u","i">>, <<"U","i">>,
                  <<"n","o">> }

\* /version/name.json, /version/name-json, /version/name.html, /name.json
RequestPaths ==
    { [segments |-> <<v, n>>, ending |-> e] :
         v \in AllVersions, n \in RequestNames, e \in {".json", "-json", ".html"} }
      \cup { [segments |-> <<n>>, ending |-> ".json"] : n \in RequestNames }

\* /\/([\w.]+)\/([\w.]+).json$/ : two segments, then any character and json
metadataRoutePattern(path) ==
    Len(path.segments) >= 2 /\ path.ending \in {".json", "-json"}

\* the null a lookup returns
NotFound == [kind |-> "null"]

\* a lookup that lower-cases the requested name first
findMetadataWithLowerCasedKey_LowersRequest(lowerCasedTypeName, version) ==
    IF /\ version \in DOMAIN metadata
       /\ \E typeName \in DOMAIN metadata[version] :
             toLowerCase(typeName) = toLowerCase(lowerCasedTypeName)
    THEN metadata[version][CHOOSE typeName \in DOMAIN metadata[version] :
                              toLowerCase(typeName) = toLowerCase(lowerCasedTypeName)]
    ELSE NotFound

\* findMetadataWithLowerCasedKey: the first stored type whose lower-cased name
\* is the given string, null if there is none or the version is not loaded
findMetadataWithLowerCasedKey(lowerCasedTypeName, version) ==
    IF /\ version \in DOMAIN metadata
       /\ \E typeName \in DOMAIN metadata[version] :
             toLowerCase(typeName) = lowerCasedTypeName
    THEN metadata[version][CHOOSE typeName \in DOMAIN metadata[version] :
                              toLowerCase(typeName) = lowerCasedTypeName]
    ELSE NotFound

\* lines 122-142: what the middleware answers
Response(req) ==
    IF ~req.accepts THEN [status |-> 406, next |-> FALSE, json |-> NotFound]
    ELSE IF ~metadataRoutePattern(req.path)
    THEN [status |-> 0, next |-> TRUE, json |-> NotFound]
    ELSE IF findMetadataWithLowerCasedKey(req.path.segments[Len(req.path.segments)],
                                          req.path.segments[Len(req.path.segments) - 1])
              = NotFound
    THEN [status |-> 0, next |-> TRUE, json |-> NotFound]
    ELSE [status |-> 200, next |-> FALSE,
          json |-> findMetadataWithLowerCasedKey(
                       req.path.segments[Len(req.path.segments)],
                       req.path.segments[Len(req.path.segments) - 1])]

HandleRequest(req) ==
    /\ last' = Called("requested", NoPage, "", <<>>, req, Undefined, Response(req))
    /\ UNCHANGED <<versions, metadata, processed, link_open, currentPage, page,
                   created, calls, runs>>

\* the dev server: a page may have been extended before a request arrives
NextServer ==
    \/ /\ calls < 1
       /\ \E pg \in FreshPages, failAt \in 0..1 : ExtendPageData(pg, failAt)
    \/ /\ last.outcome # "requested"
       /\ \E accepts \in BOOLEAN, path \in RequestPaths :
             HandleRequest([accepts |-> accepts, path |-> path])

SpecServer == Init /\ [][NextServer]_vars

(***************************************************************************)
(* rewriteTypeLinks on its own: a processor of any loaded version rewrites *)
(* a markdown text put together from a few pieces.                         *)
(***************************************************************************)
None == <<"N","o","n","e">>

\* plain text, references and links that resolve or not, an HTML tag, a link
\* whose text or target is itself a reference, and stray delimiters
LinkPieces ==
    { TextTok("see "),
      AngleTok(Ti), AngleTok(None),
      LinkTok("the type", Ui), LinkTok("it", None),
      <<"<", "b", ">">>, <<"<", "/", "b", ">">>,
      <<"[">> \o AngleTok(Ti) \o <<"]", "(">> \o Ui \o <<")">>,
      <<"[", "t", "]", "(">> \o AngleTok(Ti) \o <<")">>,
      <<"<">>, <<"(", "x", ")">> }

RECURSIVE Joined(_, _)
Joined(pieces, i) == IF i > Len(pieces) THEN <<>> ELSE pieces[i] \o Joined(pieces, i + 1)

MarkdownTexts == { Md(Joined(pieces, 1)) : pieces \in SeqsUpTo(LinkPieces, MaxPieces) }

\* processor.rewriteTypeLinks(markdownString) for a processor of version v
RewriteTypeLinks(v, markdownString) ==
    /\ last' = Called("rewritten", NoPage, v, <<>>, markdownString, NewProcessor(0, v),
                      rewriteTypeLinks(markdownString, NewProcessor(0, v)))
    /\ UNCHANGED <<versions, metadata, processed, link_open, currentPage, page,
                   created, calls, runs>>

\* one text is rewritten in a behaviour
NextLinks ==
    /\ last.outcome = "none"
    /\ \E v \in DOMAIN metadata, markdownString \in MarkdownTexts :
          RewriteTypeLinks(v, markdownString)

SpecLinks == Init /\ [][NextLinks]_vars

(***************************************************************************)
(* Properties.                                                             *)
(***************************************************************************)
Ran == last.outcome \in {"processed", "threw"}
Completed == last.outcome = "processed"

\* the metadata object, the processor and the snapshots of the latest call
Final == metadata[last.version][last.typeName]
Cached == processed[<<last.version, last.typeName>>]
Input == last.input
Filtered == last.run.filtered
PreSplit == last.run.presplit

MemberKinds == {"properties", "methods", "events"}

\* the j-th smallest of a set of positions
NthIndex(idx, j) == CHOOSE i \in idx : Cardinality({k \in idx : k < i}) = j - 1

\* out is the list `in` restricted to the positions idx, in the order of `in`
IsRestriction(out, in, idx) ==
    /\ Len(out) = Cardinality(idx)
    /\ \A j \in 1..Len(out) : out[j] = in[NthIndex(idx, j)]

\* the same, for members whose text fields have meanwhile been rendered
IsRenderedRestriction(out, in, idx) ==
    /\ Len(out) = Cardinality(idx)
    /\ \A j \in 1..Len(out) : /\ out[j].name = in[NthIndex(idx, j)].name
                              /\ out[j].inherits = in[NthIndex(idx, j)].inherits

Names(members) == { members[i].name : i \in 1..Len(members) }

NamesNonDecreasing(members) ==
    \A i \in 1..(Len(members) - 1) :
        localeCompare(members[i].name, members[i + 1].name) <= 0

\* the inherits fields of the members whose name compares equal to n, in list order
InheritsOfNamed(members, n) ==
    LET named == SelectSeq(members, LAMBDA m : localeCompare(m.name, n) = 0)
    IN  [i \in 1..Len(named) |-> named[i].inherits]

\* the name consists of upper-case letters, digits and underscores only
FullyMatches(name) ==
    /\ name # <<>>
    /\ \A i \in 1..Len(name) : name[i] \in UpperSet \cup DigitSet \cup {"_"}

DeclaredHere(m, typeName) == m.inherits = <<>> \/ m.inherits = typeName

DeclaredPositions(members, typeName) ==
    { i \in 1..Len(members) : DeclaredHere(members[i], typeName) }

\* C1: over any sequence of extendPageData calls, also when a render call
\* throws, the pipeline is started at most once for each (version, type) pair.
C1_PipelineAtMostOncePerPair == \A k \in AllKeys : runs[k] <= 1

\* C2: whenever a call ends, normally or by an exception, link_open is again
\* the rule that was installed before the call.
C2_LinkOpenRestoredOnEveryExit == [][link_open' = link_open]_vars

\* C3: a call for a (version, type) pair that is already cached uses the cached
\* processor, starts no pipeline, and leaves the metadata, the cache and its
\* processors (their headers and hasConstants) and the renderer rule unchanged;
\* the page receives the headers of that processor.
C3_CachedCallChangesOnlyThePage ==
    [][ (<<last'.version, last'.typeName>> \in DOMAIN processed) =>
          /\ UNCHANGED <<metadata, processed, link_open, created, runs, versions>>
          /\ last'.self = processed[<<last'.version, last'.typeName>>]
          /\ page' = appendAdditionalHeaders(
                         processed[<<last'.version, last'.typeName>>],
                         [last'.pageBefore EXCEPT
                             !.metadataKey = last'.typeName,
                             !.frontmatter = [metadataKey |-> @.metadataKey,
                                              layout |-> "ApiLayout",
                                              sidebarDepth |-> 0,
                                              pageClass |-> "api-page"]]).page ]_vars

\* C3 witness: a call was served from the cache
C3_Witness == last.outcome = "cached"

\* C4: for properties, methods and events alike, filterInheritedMembers keeps
\* exactly the members with no inherits field or with inherits equal to the
\* type's name, in their original relative order, and removes the others.
C4_FilterKeepsDeclaredMembersInOrder ==
    Ran => \A kind \in MemberKinds :
              IsRestriction(Filtered[kind], Input[kind],
                            DeclaredPositions(Input[kind], Input.name))

\* C4 witness: the filter ran on a kind from which it dropped a member
\* inherited from another type and kept one that names the type itself
C4_Witness ==
    /\ Ran
    /\ \E kind \in MemberKinds :
          /\ \E i \in 1..Len(Input[kind]) : Input[kind][i].inherits = Ui
          /\ \E i \in 1..Len(Filtered[kind]) : Filtered[kind][i].inherits = Ti
          /\ Len(Filtered[kind]) < Len(Input[kind])

\* C5: after a completed pipeline the names of properties and of methods are
\* in non-decreasing order of the comparator, and members whose names compare
\* equal are in their input relative order.
C5_PropertiesAndMethodsSortedStable ==
    Completed =>
        /\ NamesNonDecreasing(Final.properties)
        /\ NamesNonDecreasing(Final.constants)
        /\ NamesNonDecreasing(PreSplit.properties)
        /\ NamesNonDecreasing(Final.methods)
        /\ \A n \in Names(Filtered.properties) :
              InheritsOfNamed(Final.properties \o Final.constants, n)
                  = InheritsOfNamed(Filtered.properties, n)
        /\ \A n \in Names(Filtered.methods) :
              InheritsOfNamed(Final.methods, n) = InheritsOfNamed(Filtered.methods, n)
        /\ Len(Final.properties) + Len(Final.constants) = Len(Filtered.properties)
        /\ Len(Final.methods) = Len(Filtered.methods)

\* C5 witness: a completed pipeline whose methods were out of order and whose
\* properties held two different members of the same name
C5_Witness ==
    /\ Completed
    /\ ~NamesNonDecreasing(Filtered.methods)
    /\ \E i, j \in 1..Len(Filtered.properties) :
          /\ i < j
          /\ Filtered.properties[i].name = Filtered.properties[j].name
          /\ Filtered.properties[i].inherits # Filtered.properties[j].inherits

\* C6: the pipeline never reorders events: after a completed pipeline the events
\* are the input events kept by the inheritance filter, in source order, and the
\* level-3 headers of the events follow that order.
C6_EventsKeepSourceOrder ==
    Completed =>
        LET ev == Final.events
            h == Cached.additionalHeaders
            n == Len(ev)
        IN  /\ IsRenderedRestriction(ev, Input.events,
                                     DeclaredPositions(Input.events, Input.name))
            /\ n > 0 =>
                  /\ Len(h) > n
                  /\ h[Len(h) - n] = [level |-> 2,
                                      title |-> <<"E","v","e","n","t","s">>,
                                      slug |-> <<"e","v","e","n","t","s">>]
                  /\ \A j \in 1..n : /\ h[Len(h) - n + j].level = 3
                                     /\ h[Len(h) - n + j].title = ev[j].name
            /\ n = 0 => \A i \in 1..Len(h) : h[i].slug # <<"e","v","e","n","t","s">>

\* C6 witness: a completed pipeline whose events lost an inherited member and
\* are not in name order
C6_Witness ==
    /\ Completed
    /\ Len(Final.events) < Len(Input.events)
    /\ ~NamesNonDecreasing(Final.events)

\* C7: after a completed pipeline properties and constants share no member, and
\* their names together are the names of the properties just before the split.
C7_SplitIsAPartition ==
    Completed =>
        /\ Names(Final.properties) \cap Names(Final.constants) = {}
        /\ Names(Final.properties) \cup Names(Final.constants) = Names(PreSplit.properties)
        /\ Len(Final.properties) + Len(Final.constants) = Len(PreSplit.properties)

\* C7 witness: a completed split with members on both sides
C7_Witness == Completed /\ Final.properties # <<>> /\ Final.constants # <<>>

\* C8: the split moves exactly the members whose name fully matches the
\* constant-name pattern to constants and leaves the others in properties, each
\* list in the order of the sorted list before the split, so both are sorted.
C8_SplitByFullMatchKeepsOrder ==
    Completed =>
        LET pre == PreSplit.properties
        IN  /\ IsRestriction(Final.constants, pre,
                             {i \in 1..Len(pre) : FullyMatches(pre[i].name)})
            /\ IsRestriction(Final.properties, pre,
                             {i \in 1..Len(pre) : ~FullyMatches(pre[i].name)})
            /\ NamesNonDecreasing(Final.constants)
            /\ NamesNonDecreasing(Final.properties)

\* C8 witness: a completed split with a constant, and with a property kept
\* although its name holds an upper-case letter
C8_Witness ==
    /\ Completed
    /\ Final.constants # <<>>
    /\ \E i \in 1..Len(Final.properties) :
          \E c \in 1..Len(Final.properties[i].name) :
              Final.properties[i].name[c] \in UpperSet

KindTitle(kind) ==
    CASE kind = "properties" -> <<"P","r","o","p","e","r","t","i","e","s">>
      [] kind = "methods" -> <<"M","e","t","h","o","d","s">>
      [] kind = "events" -> <<"E","v","e","n","t","s">>

KindSlug(kind) ==
    CASE kind = "properties" -> <<"p","r","o","p","e","r","t","i","e","s">>
      [] kind = "methods" -> <<"m","e","t","h","o","d","s">>
      [] kind = "events" -> <<"e","v","e","n","t","s">>

\* the positions of the members of a kind that produce a header
HeaderPositions(kind, members) ==
    { i \in 1..Len(members) : ~(kind = "properties" /\ FullyMatches(members[i].name)) }

\* the block of headers a kind contributes
ExpectedBlock(kind, members) ==
    LET idx == HeaderPositions(kind, members)
    IN  IF idx = {} THEN <<>>
        ELSE <<[level |-> 2, title |-> KindTitle(kind), slug |-> KindSlug(kind)]>>
             \o [j \in 1..Cardinality(idx) |->
                    [level |-> 3,
                     title |-> members[NthIndex(idx, j)].name,
                     slug |-> toLowerCase(members[NthIndex(idx, j)].name)]]

\* C9: the accumulated headers are, for properties, methods, events in that
\* order, one block per kind with a header-producing member: a level-2 header
\* (capitalized kind, slug = kind) and one level-3 header (name, lower-cased
\* name) per member in the kind's order, constant-named properties skipped.
C9_HeadersAreBlocksPerKind ==
    Completed =>
        Cached.additionalHeaders =
            ExpectedBlock("properties", PreSplit.properties)
                \o ExpectedBlock("methods", PreSplit.methods)
                \o ExpectedBlock("events", PreSplit.events)

\* C9 witness: a completed pipeline with a block for each kind, a constant
\* skipped, and a name that lower-casing changes
C9_Witness ==
    /\ Completed
    /\ \A kind \in MemberKinds : HeaderPositions(kind, PreSplit[kind]) # {}
    /\ Final.constants # <<>>
    /\ \E i \in 1..Len(Cached.additionalHeaders) :
          /\ Cached.additionalHeaders[i].level = 3
          /\ Cached.additionalHeaders[i].slug # Cached.additionalHeaders[i].title

\* the level-3 headers of the properties block of a header list
PropertyHeaderPositions(h) ==
    IF h # <<>> /\ h[1].slug = KindSlug("properties")
    THEN { i \in 2..Len(h) : \A k \in 2..i : h[k].level = 3 }
    ELSE {}

\* C10: no constant-named property has a level-3 header, and one call of
\* appendAdditionalHeaders appends to the page the accumulated headers and then
\* exactly one level-2 header Constants/constants if a constant was found, none
\* otherwise.
C10_OneConstantsHeaderNoHeaderPerConstant ==
    last.outcome \in {"processed", "cached"} =>
        LET h == Cached.additionalHeaders
            before == IF last.pageBefore.headers.defined
                      THEN last.pageBefore.headers.items ELSE <<>>
        IN  /\ \A i \in PropertyHeaderPositions(h) : ~FullyMatches(h[i].title)
            /\ Cardinality(PropertyHeaderPositions(h)) = Len(Final.properties)
            /\ page.headers.defined
            /\ page.headers.items =
                  before \o h \o
                  (IF Final.constants # <<>>
                   THEN <<[level |-> 2, title |-> <<"C","o","n","s","t","a","n","t","s">>,
                           slug |-> <<"c","o","n","s","t","a","n","t","s">>]>>
                   ELSE <<>>)

\* C10 witness: headers were appended for a type with two constants and a
\* plain property
C10_Witness ==
    /\ last.outcome \in {"processed", "cached"}
    /\ Len(Final.constants) >= 2
    /\ Final.properties # <<>>

(***************************************************************************)
(* Link rewriting.                                                         *)
(***************************************************************************)
Rewrote == last.outcome = "rewritten"

\* the positions where the global search for a pattern finds its matches
RECURSIVE MatchStarts(_, _, _)
MatchStarts(pattern, s, i) ==
    IF i > Len(s) THEN {}
    ELSE IF MatchAt(pattern, s, i).found
    THEN {i} \cup MatchStarts(pattern, s, MatchAt(pattern, s, i).end + 1)
    ELSE MatchStarts(pattern, s, i + 1)

LinkPatterns == {"customLinkPattern", "mdLinkPattern"}

\* the key-path resolves for the processor of the latest call
Resolves(keyPath) ==
    getLinkForKeyPath(keyPath, last.self.base, LinkVersion(last.self)).found

\* `[${name}](${path})` of the link the key-path resolves to
ResolvedLink(keyPath) ==
    <<"[">> \o getLinkForKeyPath(keyPath, last.self.base, LinkVersion(last.self)).name
        \o <<"]", "(">>
        \o getLinkForKeyPath(keyPath, last.self.base, LinkVersion(last.self)).path
        \o <<")">>

\* part occurs in whole as a run of consecutive characters
OccursIn(part, whole) ==
    \E i \in 1..(Len(whole) - Len(part) + 1) : SubSeq(whole, i, i + Len(part) - 1) = part

\* C11: every match of either pattern in the input whose key-path resolves is
\* replaced by [name](path) of the resolved link, every match whose key-path
\* does not resolve is in the result exactly as it was, and a text without a
\* resolvable match is returned unchanged.
C11_EveryMatchReplacedOrKept ==
    Rewrote =>
        LET s == last.input.toks
            out == last.run.text.toks
        IN  /\ \A pattern \in LinkPatterns : \A i \in MatchStarts(pattern, s, 1) :
                  IF Resolves(MatchAt(pattern, s, i).linkValue)
                  THEN OccursIn(ResolvedLink(MatchAt(pattern, s, i).linkValue), out)
                  ELSE OccursIn(SubSeq(s, i, MatchAt(pattern, s, i).end), out)
            /\ (\A pattern \in LinkPatterns : \A i \in MatchStarts(pattern, s, 1) :
                    ~Resolves(MatchAt(pattern, s, i).linkValue))
                  => out = s

\* what one pass makes of the character at position i: a match that starts
\* there becomes the resolved link or stays, a character inside a match
\* contributes nothing more, any other character stays
PassPiece(pattern, s, starts, i) ==
    IF i \in starts
    THEN IF Resolves(MatchAt(pattern, s, i).linkValue)
         THEN ResolvedLink(MatchAt(pattern, s, i).linkValue)
         ELSE SubSeq(s, i, MatchAt(pattern, s, i).end)
    ELSE IF \E j \in starts : j < i /\ i <= MatchAt(pattern, s, j).end
    THEN <<>>
    ELSE <<s[i]>>

\* the text with every match of the pattern replaced or kept
AfterPass(pattern, s) ==
    LET starts == MatchStarts(pattern, s, 1)
    IN  Joined([i \in 1..Len(s) |-> PassPiece(pattern, s, starts, i)], 1)

\* C11 (amended): every match of the angle-bracket pattern in the input, and
\* then every match of the [text](target) pattern in the text the first pass
\* returned, is replaced by [name](path) when its key-path resolves and kept
\* as it is otherwise; nothing else changes, so a text in which neither pass
\* finds a resolvable match is returned unchanged.
C11_MatchesOfEachPassReplacedOrKept ==
    Rewrote =>
        /\ last.run.text.kind = "md"
        /\ last.run.text.toks =
               AfterPass("mdLinkPattern", AfterPass("customLinkPattern", last.input.toks))
        /\ (\A i \in MatchStarts("customLinkPattern", last.input.toks, 1) :
                ~Resolves(MatchAt("customLinkPattern", last.input.toks, i).linkValue))
              => \/ last.run.text = last.input
                 \/ \E i \in MatchStarts("mdLinkPattern", last.input.toks, 1) :
                        Resolves(MatchAt("mdLinkPattern", last.input.toks, i).linkValue)

\* C11 witness: a text with a reference that was replaced and one that was kept
C11_Witness ==
    /\ Rewrote
    /\ \E i \in MatchStarts("customLinkPattern", last.input.toks, 1) :
          /\ Resolves(MatchAt("customLinkPattern", last.input.toks, i).linkValue)
          /\ OccursIn(ResolvedLink(MatchAt("customLinkPattern", last.input.toks, i).linkValue),
                      last.run.text.toks)
    /\ \E pattern \in LinkPatterns : \E i \in MatchStarts(pattern, last.input.toks, 1) :
          /\ ~Resolves(MatchAt(pattern, last.input.toks, i).linkValue)
          /\ OccursIn(SubSeq(last.input.toks, i, MatchAt(pattern, last.input.toks, i).end),
                      last.run.text.toks)

\* the calls of the resolver made by the render calls of the latest pipeline run
ResolverCalls ==
    { c \in UNION { { last.run.log[i].rewritten.calls[j] :
                        j \in 1..Len(last.run.log[i].rewritten.calls) } :
                    i \in 1..Len(last.run.log) } : TRUE }

SeveralVersionsAndNotTheFirst ==
    Len(versions) >= 2 /\ last.self.version # versions[1]

\* C12: the version argument of every resolver call is the null sentinel unless
\* several versions are declared and the processor's version is not the first
\* one; so it is null whenever at most one version is declared.
C12_NullUnlessSeveralVersions ==
    Ran => \A c \in ResolverCalls : ~SeveralVersionsAndNotTheFirst => c.version = Null

\* C12 (amended): the version argument of every resolver call is the null
\* sentinel exactly when no version is declared or the processor's version is
\* the first declared one, and the processor's version otherwise, also when a
\* single version is declared and the processor's version is another one.
C12_NullIffUndeclaredOrFirstVersion ==
    Ran => \A c \in ResolverCalls :
              /\ c.version = Null <=> (versions = <<>> \/ last.self.version = versions[1])
              /\ c.version # Null => c.version = last.self.version
              /\ c.base = last.self.base

\* C12 witness: with a single declared version, a processor of the fallback
\* version 'next' called the resolver
C12_Witness ==
    /\ Ran
    /\ Len(versions) = 1
    /\ last.self.version = "next"
    /\ ResolverCalls # {}

(***************************************************************************)
(* Examples.                                                               *)
(***************************************************************************)
Sorted == last.run.sorted

HasExampleList(m) == m.examples.kind = "list" /\ m.examples.items # <<>>

\* '#### Examples\n\n', then for each example of the list, in list order, a
\* heading with its description and then its code
ExamplesBlock(items) ==
    Md(<<"#### Examples\n\n">>
         \o Joined([i \in 1..Len(items) |->
                       <<"##### ">> \o items[i].description.toks \o <<"\n">>
                           \o items[i].code.toks], 1))

\* the render calls of the latest run whose argument is the given block
RendersOf(block) ==
    { i \in 1..Len(last.run.log) :
         last.run.log[i].ev = "render" /\ last.run.log[i].arg = block }

\* the members of the latest run that carry the given list of examples
MembersWith(items) ==
    { <<kind, i>> \in MemberKinds \X (1..9) :
         /\ i <= Len(Sorted[kind])
         /\ HasExampleList(Sorted[kind][i])
         /\ Sorted[kind][i].examples.items = items }

\* C13: after a completed pipeline every member that had a non-empty list of
\* examples has instead one HTML string, rendered from one block that starts
\* with "#### Examples\n\n" and holds a subsection per example in list order;
\* the block was rendered once for the member, and no member is left with a
\* non-empty list.
C13_ExamplesCollapsedToOneHtml ==
    Completed =>
        /\ \A kind \in MemberKinds : \A i \in 1..Len(Sorted[kind]) :
              HasExampleList(Sorted[kind][i]) =>
                 /\ PreSplit[kind][i].examples.kind = "html"
                 /\ \E e \in RendersOf(ExamplesBlock(Sorted[kind][i].examples.items)) :
                       PreSplit[kind][i].examples.src = last.run.log[e].rewritten.text
                 /\ Cardinality(RendersOf(ExamplesBlock(Sorted[kind][i].examples.items)))
                       = Cardinality(MembersWith(Sorted[kind][i].examples.items))
        /\ \A kind \in MemberKinds \cup {"constants"} : \A i \in 1..Len(Final[kind]) :
              ~HasExampleList(Final[kind][i])

\* C13 witness: a completed pipeline for a type with a member that had two
\* examples and one whose list was empty and stayed a list
C13_Witness ==
    /\ Completed
    /\ \E kind \in MemberKinds : \E i \in 1..Len(Sorted[kind]) :
          /\ HasExampleList(Sorted[kind][i])
          /\ Len(Sorted[kind][i].examples.items) = 2
          /\ PreSplit[kind][i].examples.kind = "html"
    /\ \E kind \in MemberKinds : \E i \in 1..Len(Final[kind]) :
          /\ Final[kind][i].examples.kind = "list"
          /\ Final[kind][i].examples.items = <<>>

(***************************************************************************)
(* Missing metadata.                                                       *)
(***************************************************************************)
\* the page is an API page for whose type no metadata is loaded in its version
NoMetadataFor(pg) ==
    /\ IsApiPath(pg.regularPath)
    /\ LET version == IF pg.version # "" THEN pg.version ELSE "next"
           typeName == IF pg.frontmatter.metadataKey # <<>>
                       THEN pg.frontmatter.metadataKey ELSE pg.title
       IN  ~(version \in DOMAIN metadata /\ typeName \in DOMAIN metadata[version])

\* C14: a call of extendPageData for a page without metadata raises no error,
\* creates and caches no processor, starts no pipeline, changes no metadata,
\* leaves the renderer rule alone and appends no header to the page.
C14_NoMetadataNoProcessing ==
    [][ (calls' = calls + 1 /\ NoMetadataFor(last'.pageBefore)) =>
           /\ UNCHANGED <<metadata, processed, link_open, created, runs, versions>>
           /\ last'.outcome \notin {"threw", "processed", "cached"}
           /\ page'.headers = last'.pageBefore.headers
           /\ page'.metadataKey = last'.pageBefore.metadataKey ]_vars

\* C14 witness: after a type was processed, a call for a page of a version that
\* has no metadata returned
C14_Witness ==
    /\ last.outcome = "nometadata"
    /\ last.pageBefore.version # ""
    /\ DOMAIN processed # {}

(***************************************************************************)
(* The request handler.                                                    *)
(***************************************************************************)
\* the latest request reached the lookup: it accepts JSON and its path is a
\* metadata route
LookedUp ==
    /\ last.outcome = "requested"
    /\ last.input.accepts
    /\ Len(last.input.path.segments) >= 2
    /\ last.input.path.ending \in {".json", "-json"}

RequestedName == last.input.path.segments[Len(last.input.path.segments)]
RequestedVersion == last.input.path.segments[Len(last.input.path.segments) - 1]

\* the stored type names of the requested version that equal the requested
\* name when letter case is ignored
StoredIgnoringCase ==
    IF RequestedVersion \in DOMAIN metadata
    THEN { t \in DOMAIN metadata[RequestedVersion] :
              [i \in 1..Len(t) |-> LowerOf[t[i]]]
                 = [i \in 1..Len(RequestedName) |-> LowerOf[RequestedName[i]]] }
    ELSE {}

\* C15: the lookup of the request handler answers with the metadata of a
\* stored type whose name equals the requested name ignoring letter case,
\* whatever the case of the requested name, and finds no match when no stored
\* name equals it ignoring case.
C15_LookupIgnoresCaseOfRequest ==
    LookedUp =>
        IF StoredIgnoringCase # {}
        THEN /\ last.run.status = 200
             /\ \E t \in StoredIgnoringCase : last.run.json = metadata[RequestedVersion][t]
        ELSE last.run.next /\ last.run.json = [kind |-> "null"]

\* the stored type names of the requested version whose lower-cased form is
\* the requested name as it stands
StoredLowerCasedAsRequested ==
    IF RequestedVersion \in DOMAIN metadata
    THEN { t \in DOMAIN metadata[RequestedVersion] :
              [i \in 1..Len(t) |-> LowerOf[t[i]]] = RequestedName }
    ELSE {}

\* C15 (amended): the lookup answers with the metadata of a stored type whose
\* lower-cased name is the requested name exactly as it stands in the path,
\* whatever the letter case of the stored name, and finds no match otherwise,
\* also for a requested name with an upper-case letter that equals a stored
\* name ignoring case.
C15_LookupMatchesLowerCasedStoredName ==
    LookedUp =>
        IF StoredLowerCasedAsRequested # {}
        THEN /\ last.run.status = 200
             /\ ~last.run.next
             /\ \E t \in StoredLowerCasedAsRequested :
                   last.run.json = metadata[RequestedVersion][t]
        ELSE last.run.next /\ last.run.status = 0 /\ last.run.json = [kind |-> "null"]

\* C15 witness: a lower-case request was answered with the metadata of a type
\* whose stored name has an upper-case letter
C15_Witness ==
    /\ LookedUp
    /\ last.run.status = 200
    /\ \E t \in StoredLowerCasedAsRequested : t # RequestedName

(***************************************************************************)
(* The window in which the link_open rule is replaced.                     *)
(***************************************************************************)
EventsOf(log, ev) == { i \in 1..Len(log) : log[i].ev = ev }

MemberFields == {"summary", "description", "examples", "notes", "returns"}

\* the member has the field, so the pipeline renders it
FieldPresent(m, field) ==
    CASE field = "summary" -> m.summary.kind # "undefined" /\ m.summary # Md(<<>>)
      [] field = "description" ->
            m.description.kind # "undefined" /\ m.description # Md(<<>>)
      [] field = "examples" -> m.examples.kind = "list" /\ m.examples.items # <<>>
      [] field = "notes" ->
            /\ m.deprecated.kind = "object"
            /\ m.deprecated.notes.kind # "undefined"
            /\ m.deprecated.notes # Md(<<>>)
      [] field = "returns" ->
            /\ m.returns.kind = "object"
            /\ m.returns.summary.kind # "undefined"
            /\ m.returns.summary # Md(<<>>)

\* the fields of the members of a run that are to be rendered
FieldsToRender(sorted) ==
    { <<kind, i, field>> \in MemberKinds \X (1..9) \X MemberFields :
         i <= Len(sorted[kind]) /\ FieldPresent(sorted[kind][i], field) }

\* the value of a rendered field
FieldValue(m, field) ==
    CASE field = "notes" -> m.deprecated.notes
      [] field = "returns" -> m.returns.summary
      [] OTHER -> m[field]

\* C16: in a pipeline run that completes, the log is: the rule is replaced, then
\* one render call for the type summary and for each member field to render,
\* all under the pass-through rule, then the rule that was installed before is
\* reinstalled, then the split; every rendered field was rendered under the
\* pass-through rule.
C16_RendersOnlyInsideTheWindow ==
    [][ last'.outcome = "processed" =>
          LET log == last'.run.log
              n == Len(log)
          IN  /\ n >= 4
              /\ log[1].ev = "suppress" /\ log[1].link_open = "passThrough"
              /\ log[n - 1].ev = "restore" /\ log[n - 1].link_open = link_open
              /\ log[n].ev = "split" /\ log[n].link_open = link_open
              /\ link_open' = link_open
              /\ \A i \in 2..(n - 2) :
                    log[i].ev = "render" /\ log[i].link_open = "passThrough"
              /\ n - 3 = 1 + Cardinality(FieldsToRender(last'.run.sorted))
              /\ metadata'[last'.version][last'.typeName].summary.kind = "html"
              /\ metadata'[last'.version][last'.typeName].summary.link_open = "passThrough"
              /\ \A f \in FieldsToRender(last'.run.sorted) :
                    /\ FieldValue(last'.run.presplit[f[1]][f[2]], f[3]).kind = "html"
                    /\ FieldValue(last'.run.presplit[f[1]][f[2]], f[3]).link_open
                          = "passThrough" ]_vars

\* C16 witness: a completed run with at least four render calls, that found
\* the vue-router rule installed
C16_Witness ==
    /\ Completed
    /\ Cardinality(EventsOf(last.run.log, "render")) >= 4
    /\ last.run.log[Len(last.run.log) - 1].link_open = "vueRouterLink"

(***************************************************************************)
(* appendAdditionalHeaders.                                                *)
(***************************************************************************)
\* what a call appends for a processor: its accumulated headers, then the
\* Constants header if it found a constant
AppendedBy(self) ==
    self.additionalHeaders
        \o (IF self.hasConstants
            THEN <<[level |-> 2, title |-> <<"C","o","n","s","t","a","n","t","s">>,
                    slug |-> <<"c","o","n","s","t","a","n","t","s">>]>>
            ELSE <<>>)

RECURSIVE Repeated(_, _)
Repeated(seq, n) == IF n = 0 THEN <<>> ELSE seq \o Repeated(seq, n - 1)

\* the headers the page object had when VuePress created it
AuthoredHeaders(pg) ==
    LET fresh == CHOOSE f \in FreshPages : f.regularPath = pg.regularPath
    IN  IF fresh.headers.defined THEN fresh.headers.items ELSE <<>>

\* C17: no call changes the state of a cached processor, the processor that
\* appended is afterwards as it was before, the page's headers are its
\* previous headers followed by what the processor appends, and after n calls
\* on a page they are its authored headers followed by n copies of it.
C17_AppendLeavesProcessorAndRepeatsOnPage ==
    [][ /\ \A k \in DOMAIN processed :
              k \in DOMAIN processed' /\ processed'[k] = processed[k]
        /\ last'.outcome \in {"processed", "cached"} =>
              /\ processed'[<<last'.version, last'.typeName>>] = last'.self
              /\ page'.headers.defined
              /\ page'.headers.items =
                    (IF last'.pageBefore.headers.defined
                     THEN last'.pageBefore.headers.items ELSE <<>>)
                        \o AppendedBy(last'.self)
              /\ page'.appends = last'.pageBefore.appends + 1
              /\ page'.headers.items =
                    AuthoredHeaders(page') \o Repeated(AppendedBy(last'.self), page'.appends)
      ]_vars

\* C17 witness: the headers of a processor that found a constant were appended
\* three times to one page that had no headers
C17_Witness ==
    /\ last.outcome = "cached"
    /\ page.appends = 3
    /\ last.self.hasConstants
    /\ last.self.additionalHeaders # <<>>
    /\ AuthoredHeaders(page) = <<>>

(***************************************************************************)
(* hasConstants.                                                           *)
(***************************************************************************)
HasConstantsHeader(pg) ==
    /\ pg.headers.defined
    /\ \E i \in 1..Len(pg.headers.items) :
          /\ pg.headers.items[i].level = 2
          /\ pg.headers.items[i].slug = <<"c","o","n","s","t","a","n","t","s">>

\* C18: every cached processor has hasConstants set exactly when the constants
\* list of its type is non-empty, and the page of a completed or cached call
\* has the Constants header exactly when the constants section is shown.
C18_HasConstantsIffConstantsListed ==
    /\ \A k \in DOMAIN processed :
          processed[k].hasConstants <=> (Len(metadata[k[1]][k[2]].constants) > 0)
    /\ last.outcome \in {"processed", "cached"} =>
          (HasConstantsHeader(page) <=> ConstantsSectionShown(Final))

\* C18 witness: a completed run for a type without a constant among its
\* properties but with an event whose name looks like a constant
C18_Witness ==
    /\ Completed
    /\ ~Cached.hasConstants
    /\ Final.constants = <<>>
    /\ Final.properties # <<>>
    /\ \E i \in 1..Len(Final.events) : FullyMatches(Final.events[i].name)

(***************************************************************************)
(* The cache of processors.                                                *)
(***************************************************************************)
\* the metadata is what a completed pipeline leaves: rendered summary, no
\* description and examples of the type, no member inherited from another type,
\* constants split from the properties, members with a summary rendered
ProcessedCompletely(md) ==
    /\ md.summary.kind = "html"
    /\ md.description.kind = "undefined"
    /\ md.examples.kind = "undefined"
    /\ \A kind \in MemberKinds \cup {"constants"} : \A i \in 1..Len(md[kind]) :
          /\ md[kind][i].inherits \in {<<>>, md.name}
          /\ md[kind][i].summary.kind = "html" \/ md[kind][i].summary = Md(<<>>)
          /\ md[kind][i].examples.kind = "list" => md[kind][i].examples.items = <<>>
    /\ \A i \in 1..Len(md.properties) : ~FullyMatches(md.properties[i].name)
    /\ \A i \in 1..Len(md.constants) : FullyMatches(md.constants[i].name)

\* C19: an entry is added to the cache only by a call whose pipeline ran to its
\* end and whose headers were appended to the page; an entry is never removed
\* or replaced; the metadata of every cached pair is completely processed.
C19_CacheHoldsOnlyCompletedProcessors ==
    [][ /\ \A k \in DOMAIN processed :
              k \in DOMAIN processed' /\ processed'[k] = processed[k]
        /\ \A k \in DOMAIN processed' \ DOMAIN processed :
              /\ k = <<last'.version, last'.typeName>>
              /\ last'.outcome = "processed"
              /\ ~last'.run.threw
              /\ last'.run.log[Len(last'.run.log)].ev = "split"
              /\ processed'[k].id = created'
              /\ processed'[k].version = k[1]
              /\ page'.appends = last'.pageBefore.appends + 1
        /\ \A k \in DOMAIN processed' : ProcessedCompletely(metadata'[k[1]][k[2]])
      ]_vars

\* C19 witness: a call threw for one pair while the processor of another pair,
\* and only that one, is in the cache
C19_Witness ==
    /\ last.outcome = "threw"
    /\ DOMAIN processed # {}
    /\ <<last.version, last.typeName>> \notin DOMAIN processed

====
